---- MODULE Spec2Model ----
(***************************************************************************)
(* SignalSculptor core (src/cpp_server/SignalLib.cpp): the five transforms *)
(* AnalogToAnalog, AnalogToDigitalPCM, AnalogToDigitalDM, DigitalToAnalog  *)
(* and DigitalToDigital, each run by a caller (a request handler thread),  *)
(* and the transport handlers (src/cpp_server/service_impl.cpp), which     *)
(* hold their own copies of the transforms and map failures to a Status.   *)
(*                                                                         *)
(* Units.  A Point is [x |-> time, y |-> value].  Times are integers in    *)
(* microseconds (the code rounds tick times to 1e-6 s).  Analog values are *)
(* integers in units of 1/YScale; line-code levels, bits and quantization  *)
(* indices are plain integers, as in the code.  sin is computed in fixed   *)
(* point (SinMilli).  calculation_time_ms is wall-clock time and is not    *)
(* part of the model.                                                      *)
(***************************************************************************)
EXTENDS Integers, Sequences, FiniteSets, TLC

VARIABLES pc, fn, args, local, input_signal, transmitted, output, result, ncalls,
          rpc

vars == <<pc, fn, args, local, input_signal, transmitted, output, result, ncalls, rpc>>

(***************************************************************************)
(* Bounds of the model.                                                    *)
(***************************************************************************)
MaxFreq == 2
MaxAmp == 2
MaxRate == 12
MaxLevels == 4
MaxSegs == 4
MaxBitsD2A == 2
MaxCalls == 2
TickCap == 30

(***************************************************************************)
(* Units and program constants.                                            *)
(***************************************************************************)
TimeScale == 1000000
YScale == 10000
SinScale == 1000
StepScale == 10
HalfTurn == 500
duration == 2
samples_per_sec_a2a == 200
samples_per_sec_adc == 100
samples_per_bit == 100
bit_duration == 1000000
dm_hold_offset == 1000

\* the double +infinity as a sampling_rate (it is not <= 0)
Infinity == 2147483647

Procs == {1, 2}

AnalogModulation == {"AM", "FM", "PM"}

\* SignalLib.h declares nine enumerators; SignalLib.cpp and wasm_binding.cpp
\* name ASK, FSK and PSK.  The selector type holds all of them.
DigitalModulation ==
    {"ASK", "BFSK", "MFSK", "BPSK", "DPSK", "QPSK", "OQPSK", "MPSK", "QAM"}
        \cup {"FSK", "PSK"}

LineCoding ==
    {"NRZ_L", "NRZ_I", "MANCHESTER", "DIFFERENTIAL_MANCHESTER", "AMI",
     "PSEUDOTERNARY", "B8ZS", "HDB3"}

Point(x, y) == [x |-> x, y |-> y]

Last(s) == s[Len(s)]

Zeros(n) == [k \in 1..n |-> "0"]

(***************************************************************************)
(* Inputs.  Bit strings are concatenations of at most MaxSegs segments, so *)
(* that runs of four and eight zeros occur in short derivations; "x" is a  *)
(* character other than '0' and '1'.                                       *)
(***************************************************************************)
Segments == {<<"0">>, <<"1">>, <<"x">>, Zeros(4), Zeros(8)}

RECURSIVE Strs(_)
Strs(k) ==
    IF k = 0 THEN {<<>>}
    ELSE LET prev == Strs(k - 1) IN prev \cup {s \o g : s \in prev, g \in Segments}

WideBins == Strs(MaxSegs)

StepSet == {-1, 0, 5, 8, 10, 11}

Wide ==
    [freqs |-> -1..MaxFreq, amps |-> -1..MaxAmp, rates |-> (-1..MaxRate) \cup {Infinity},
     levels |-> 0..MaxLevels, steps |-> StepSet, bins |-> WideBins,
     d2abits |-> MaxBitsD2A, amods |-> AnalogModulation,
     dmods |-> DigitalModulation, calls |-> 1]

Narrow ==
    [freqs |-> {0, 1}, amps |-> {1}, rates |-> {1}, levels |-> {2},
     steps |-> {5}, bins |-> {<<"1">>, <<"x">>},
     d2abits |-> 1, amods |-> {"AM"}, dmods |-> {"ASK"}, calls |-> MaxCalls]

NoArgs ==
    [freq |-> 0, amp |-> 0, type |-> "none", sampling_rate |-> 0,
     quantization_levels |-> 0, delta_step_size |-> 0, binary |-> <<>>]

EmptyResult == [input |-> <<>>, transmitted |-> <<>>, output |-> <<>>]

(***************************************************************************)
(* The per-call accumulators: cursor, NRZ-I / Differential Manchester      *)
(* level, AMI-family polarity, HDB3 mark counter, DM approximation.  Each  *)
(* is a local variable initialised in the function body, whatever an       *)
(* earlier activation (old) left behind.                                   *)
(***************************************************************************)
\* the accumulators of a caller that has not called yet
NoLocals ==
    [i |-> 0, current_level |-> 1, last_one_polarity |-> -1, ones_count |-> 0,
     approximation |-> 0]

StaleLocals(old) == [old EXCEPT !.i = 0]

FreshLocals(old) ==
    [i |-> 0, current_level |-> 1, last_one_polarity |-> -1, ones_count |-> 0,
     approximation |-> 0]

(***************************************************************************)
(* Fixed-point sine.  SinMilli(p) is SinScale * sin(2*pi*p/1000), p in     *)
(* thousandths of a turn, by Bhaskara's rational approximation on each     *)
(* half turn (exact at 0, 1/4, 1/2, 3/4 turn).                             *)
(***************************************************************************)
HalfSine(p) == (16 * SinScale * p * (HalfTurn - p))
                   \div (5 * HalfTurn * HalfTurn - 4 * p * (HalfTurn - p))

SinMilli(p) ==
    LET q == p % (2 * HalfTurn)
    IN  IF q <= HalfTurn THEN HalfSine(q) ELSE -HalfSine(q - HalfTurn)

\* std::sin(2 * PI * freq * t) for t in microseconds, freq in Hz
SinAt(freq, t) == SinMilli((freq * t) \div (TimeScale \div (2 * HalfTurn)))

\* std::round of the non-negative quotient n / d
RoundDiv(n, d) == (2 * n + d) \div (2 * d)

ValidBinaryFirstOnly(binary) ==
    /\ Len(binary) > 0
    /\ binary[1] \in {"0", "1"}

ValidBinary(binary) ==
    /\ Len(binary) > 0
    /\ \A k \in 1..Len(binary) : binary[k] \in {"0", "1"}

\* the digital base signal: two points per bit
DigitalInput(binary) ==
    [k \in 1..(2 * Len(binary)) |->
        LET b == (k - 1) \div 2
        IN  Point((b + ((k - 1) % 2)) * bit_duration,
                  IF binary[b + 1] = "1" THEN 1 ELSE 0)]

\* the analog base signal: total_samples points of amp * sin(2 pi freq t)
AnalogInput(freq, amp, sps) ==
    [k \in 1..(duration * sps) |->
        LET t == (k - 1) * (TimeScale \div sps)
        IN  Point(t, amp * (YScale \div SinScale) * SinAt(freq, t))]

\* two points holding level v over bit interval b (0-based)
Bit2(b, v) == <<Point(b * bit_duration, v), Point((b + 1) * bit_duration, v)>>

RECURSIVE PatternPointsShifted(_, _, _)
PatternPointsShifted(b, pattern, j) ==
    IF j > Len(pattern) THEN <<>>
    ELSE Bit2(b + j, pattern[j]) \o PatternPointsShifted(b, pattern, j + 1)

\* the for (j ...) loop of a substitution: pattern[j] over bit b + j (0-based j)
RECURSIVE PatternPoints(_, _, _)
PatternPoints(b, pattern, j) ==
    IF j > Len(pattern) THEN <<>>
    ELSE Bit2(b + j - 1, pattern[j]) \o PatternPoints(b, pattern, j + 1)

(***************************************************************************)
(* Calls.  A caller that is idle or has its previous result starts a new   *)
(* activation; D bounds the arguments it draws.                            *)
(***************************************************************************)
CanCall(p, D) ==
    /\ pc[p] \in {"idle", "done"}
    /\ ncalls[p] < D.calls

Enter(p, f, a) ==
    /\ fn' = [fn EXCEPT ![p] = f]
    /\ args' = [args EXCEPT ![p] = a]
    /\ local' = [local EXCEPT ![p] = FreshLocals(local[p])]
    /\ ncalls' = [ncalls EXCEPT ![p] = @ + 1]
    /\ UNCHANGED rpc

SetVectors(p, in, tr, out) ==
    /\ input_signal' = [input_signal EXCEPT ![p] = in]
    /\ transmitted' = [transmitted EXCEPT ![p] = tr]
    /\ output' = [output EXCEPT ![p] = out]

\* return result; with the three vectors as given: the activation's own
\* vectors end with it
Finish(p, in, tr, out) ==
    /\ pc' = [pc EXCEPT ![p] = "done"]
    /\ result' = [result EXCEPT ![p] = [input |-> in, transmitted |-> tr, output |-> out]]
    /\ SetVectors(p, <<>>, <<>>, <<>>)

(***************************************************************************)
(* DigitalToDigital                                                        *)
(***************************************************************************)
CallDigitalToDigital(p, D) ==
    /\ CanCall(p, D)
    /\ \E binary \in D.bins, type \in LineCoding :
        /\ Enter(p, "DigitalToDigital", [NoArgs EXCEPT !.binary = binary, !.type = type])
        /\ IF ~ValidBinary(binary)
           THEN Finish(p, <<>>, <<>>, <<>>)
           ELSE /\ pc' = [pc EXCEPT ![p] = "loop"]
                /\ result' = [result EXCEPT ![p] = EmptyResult]
                /\ SetVectors(p, DigitalInput(binary), <<>>, <<>>)

InLineLoop(p, type) ==
    /\ pc[p] = "loop"
    /\ fn[p] = "DigitalToDigital"
    /\ args[p].type = type
    /\ local[p].i < Len(args[p].binary)

\* one iteration of a per-bit loop: append pts, update the accumulators
LineStep(p, pts, newlocal) ==
    /\ transmitted' = [transmitted EXCEPT ![p] = @ \o pts]
    /\ local' = [local EXCEPT ![p] = newlocal]
    /\ UNCHANGED <<pc, fn, args, input_signal, output, result, ncalls, rpc>>

NRZ_L_Step(p) ==
    /\ InLineLoop(p, "NRZ_L")
    /\ LET i == local[p].i
           voltage == IF args[p].binary[i + 1] = "0" THEN 1 ELSE -1
       IN  LineStep(p, Bit2(i, voltage), [local[p] EXCEPT !.i = i + 1])

NRZILevelToggleOnZero(bit, current_level) ==
    IF bit = "0" THEN -current_level ELSE current_level

\* toggle on '1', hold on '0'
NRZILevel(bit, current_level) == IF bit = "1" THEN -current_level ELSE current_level

NRZ_I_Step(p) ==
    /\ InLineLoop(p, "NRZ_I")
    /\ LET i == local[p].i
           lvl == NRZILevel(args[p].binary[i + 1], local[p].current_level)
       IN  LineStep(p, Bit2(i, lvl),
                    [local[p] EXCEPT !.i = i + 1, !.current_level = lvl])

Mid(i) == i * bit_duration + bit_duration \div 2

\* base, mid, mid, end with the level first before and second after the midpoint
Bit4(i, first, second) ==
    <<Point(i * bit_duration, first), Point(Mid(i), first),
      Point(Mid(i), second), Point((i + 1) * bit_duration, second)>>

MANCHESTER_Step(p) ==
    /\ InLineLoop(p, "MANCHESTER")
    /\ LET i == local[p].i
       IN  LineStep(p,
                    IF args[p].binary[i + 1] = "0" THEN Bit4(i, 1, -1) ELSE Bit4(i, -1, 1),
                    [local[p] EXCEPT !.i = i + 1])

DiffManchesterFirstToggleOnOne(bit, current_level) ==
    IF bit = "1" THEN -current_level ELSE current_level

\* if (binary[i] == '0') current_level = -current_level: the first-half level
DiffManchesterFirst(bit, current_level) ==
    IF bit = "0" THEN -current_level ELSE current_level

DIFFERENTIAL_MANCHESTER_Step(p) ==
    /\ InLineLoop(p, "DIFFERENTIAL_MANCHESTER")
    /\ LET i == local[p].i
           first == DiffManchesterFirst(args[p].binary[i + 1], local[p].current_level)
       IN  LineStep(p, Bit4(i, first, -first),
                    [local[p] EXCEPT !.i = i + 1, !.current_level = -first])

\* the AMI rule shared by AMI, B8ZS and HDB3: '0' at 0 V, '1' alternates
AMIVoltageNoToggle(bit, polarity) == IF bit = "1" THEN polarity ELSE 0

AMIVoltage(bit, polarity) == IF bit = "1" THEN -polarity ELSE 0

AMI_Step(p) ==
    /\ InLineLoop(p, "AMI")
    /\ LET i == local[p].i
           bit == args[p].binary[i + 1]
           voltage == AMIVoltage(bit, local[p].last_one_polarity)
       IN  LineStep(p, Bit2(i, voltage),
                    [local[p] EXCEPT !.i = i + 1,
                                     !.last_one_polarity = IF bit = "1" THEN voltage ELSE @])

PSEUDOTERNARY_Step(p) ==
    /\ InLineLoop(p, "PSEUDOTERNARY")
    /\ LET i == local[p].i
           bit == args[p].binary[i + 1]
           \* last_zero_polarity is kept in the same accumulator slot
           voltage == IF bit = "0" THEN -local[p].last_one_polarity ELSE 0
       IN  LineStep(p, Bit2(i, voltage),
                    [local[p] EXCEPT !.i = i + 1,
                                     !.last_one_polarity = IF bit = "0" THEN voltage ELSE @])

ZerosAheadStrict(binary, i, n) ==
    /\ i + n < Len(binary)
    /\ \A j \in 0..(n - 1) : binary[i + j + 1] = "0"

\* is_eight_zeros / is_four_zeros: n zeros start at cursor i (0-based)
ZerosAhead(binary, i, n) ==
    /\ i + (n - 1) < Len(binary)
    /\ \A j \in 0..(n - 1) : binary[i + j + 1] = "0"

B8ZSPatternSwapped(V, B) == <<0, 0, 0, V, B, 0, B, V>>

B8ZSPattern(V, B) == <<0, 0, 0, V, B, 0, V, B>>

B8ZS_Step(p) ==
    /\ InLineLoop(p, "B8ZS")
    /\ LET i == local[p].i
           bit == args[p].binary[i + 1]
       IN  IF ZerosAhead(args[p].binary, i, 8)
           THEN LET V == local[p].last_one_polarity
                    B == -local[p].last_one_polarity
                IN  LineStep(p, PatternPoints(i, B8ZSPattern(V, B), 1),
                             [local[p] EXCEPT !.i = i + 8, !.last_one_polarity = B])
           ELSE LET voltage == AMIVoltage(bit, local[p].last_one_polarity)
                IN  LineStep(p, Bit2(i, voltage),
                             [local[p] EXCEPT !.i = i + 1,
                                 !.last_one_polarity = IF bit = "1" THEN voltage ELSE @])

HDB3PatternNoParity(ones, polarity) == <<0, 0, 0, polarity>>

\* even: 000V with V the stored polarity; odd: B00V with B = V = -stored
HDB3Pattern(ones, polarity) ==
    IF ones % 2 = 0 THEN <<0, 0, 0, polarity>> ELSE <<-polarity, 0, 0, -polarity>>

HDB3_Step(p) ==
    /\ InLineLoop(p, "HDB3")
    /\ LET i == local[p].i
           bit == args[p].binary[i + 1]
       IN  IF ZerosAhead(args[p].binary, i, 4)
           THEN LET pattern == HDB3Pattern(local[p].ones_count, local[p].last_one_polarity)
                IN  LineStep(p, PatternPoints(i, pattern, 1),
                             [local[p] EXCEPT !.i = i + 4,
                                              !.last_one_polarity = pattern[4],
                                              !.ones_count = 0])
           ELSE LET voltage == AMIVoltage(bit, local[p].last_one_polarity)
                IN  LineStep(p, Bit2(i, voltage),
                             [local[p] EXCEPT !.i = i + 1,
                                 !.last_one_polarity = IF bit = "1" THEN voltage ELSE @,
                                 !.ones_count = IF bit = "1" THEN @ + 1 ELSE @])

DigitalToDigitalReturnLineAsOutput(p) ==
    /\ pc[p] = "loop"
    /\ fn[p] = "DigitalToDigital"
    /\ local[p].i >= Len(args[p].binary)
    /\ Finish(p, input_signal[p], transmitted[p], transmitted[p])
    /\ UNCHANGED <<fn, args, local, ncalls, rpc>>

\* result.input = input_signal; result.transmitted = transmitted;
\* result.output = input_signal
DigitalToDigitalReturn(p) ==
    /\ pc[p] = "loop"
    /\ fn[p] = "DigitalToDigital"
    /\ local[p].i >= Len(args[p].binary)
    /\ Finish(p, input_signal[p], transmitted[p], input_signal[p])
    /\ UNCHANGED <<fn, args, local, ncalls, rpc>>

(***************************************************************************)
(* get_input_value_at_time: piecewise-linear lookup with std::lower_bound  *)
(***************************************************************************)
RECURSIVE LowerBound(_, _, _, _)
LowerBound(s, t, first, count) ==
    IF count = 0 THEN first
    ELSE LET step == count \div 2
             it == first + step
         IN  IF s[it].x < t
             THEN LowerBound(s, t, it + 1, count - step - 1)
             ELSE LowerBound(s, t, first, step)

get_input_value_at_time(s, time) ==
    IF Len(s) = 0 THEN 0
    ELSE IF time <= s[1].x THEN s[1].y
    ELSE IF time >= Last(s).x THEN Last(s).y
    ELSE LET it == LowerBound(s, time, 1, Len(s))
         IN  IF it = 1 THEN s[it].y
             ELSE LET p2 == s[it]
                      p1 == s[it - 1]
                  IN  IF p2.x = p1.x THEN p1.y
                      ELSE p1.y + ((time - p1.x) * (p2.y - p1.y)) \div (p2.x - p1.x)

(***************************************************************************)
(* AnalogToAnalog                                                          *)
(***************************************************************************)
A2AInvalidFreqOnly(freq, amp) == freq <= 0

A2AInvalid(freq, amp) == freq <= 0 \/ amp <= 0

\* the transmitted value of sample pt, in units of 1/YScale (carrier_amp = 1)
A2AValue(type, freq, amp, pt) ==
    LET carrier_freq == freq * 5
        msg == (pt.y * SinScale) \div (amp * YScale)
        turns == (carrier_freq * pt.x) \div (TimeScale \div (2 * HalfTurn))
        k == YScale \div SinScale
    IN  CASE type = "AM" ->
                ((10 * SinScale + 8 * msg) * SinMilli(turns)) \div SinScale
          [] type = "FM" ->
                \* deviation 0.5 * carrier_freq; phase term deviation * msg * t / freq
                k * SinMilli(turns + (5 * msg * (pt.x \div SinScale)) \div (2 * SinScale))
          [] type = "PM" ->
                \* phase deviation PI / 2 is a quarter turn
                k * SinMilli(turns + (msg * HalfTurn) \div (2 * SinScale))

CallAnalogToAnalog(p, D) ==
    /\ CanCall(p, D)
    /\ \E freq \in D.freqs, amp \in D.amps, type \in D.amods :
        /\ Enter(p, "AnalogToAnalog", [NoArgs EXCEPT !.freq = freq, !.amp = amp, !.type = type])
        /\ IF A2AInvalid(freq, amp)
           THEN Finish(p, <<>>, <<>>, <<>>)
           ELSE LET in == AnalogInput(freq, amp, samples_per_sec_a2a)
                    tr == [k \in 1..Len(in) |->
                              Point(in[k].x, A2AValue(type, freq, amp, in[k]))]
                IN  Finish(p, in, tr, in)

(***************************************************************************)
(* AnalogToDigitalPCM                                                      *)
(***************************************************************************)
PCMInvalid(freq, amp, sampling_rate, quantization_levels) ==
    freq <= 0 \/ amp <= 0 \/ sampling_rate <= 0 \/ quantization_levels < 2

CallAnalogToDigitalPCM(p, D) ==
    /\ CanCall(p, D)
    /\ \E freq \in D.freqs, amp \in D.amps, rate \in D.rates, levels \in D.levels :
        /\ Enter(p, "AnalogToDigitalPCM",
                 [NoArgs EXCEPT !.freq = freq, !.amp = amp, !.sampling_rate = rate,
                                !.quantization_levels = levels])
        /\ IF PCMInvalid(freq, amp, rate, levels)
           THEN Finish(p, <<>>, <<>>, <<>>)
           ELSE /\ pc' = [pc EXCEPT ![p] = "loop"]
                /\ result' = [result EXCEPT ![p] = EmptyResult]
                /\ SetVectors(p, AnalogInput(freq, amp, samples_per_sec_adc), <<>>, <<>>)

\* t = i * sample_interval exceeds real_duration = input_signal.back().x;
\* sample_interval = 1.0 / sampling_rate is 0 for an infinite rate
PastEnd(p) ==
    IF args[p].sampling_rate = Infinity THEN FALSE
    ELSE local[p].i * TimeScale > Last(input_signal[p]).x * args[p].sampling_rate

TickTimeTruncated(p) ==
    IF args[p].sampling_rate = Infinity THEN 0
    ELSE (local[p].i * TimeScale) \div args[p].sampling_rate

\* std::round(t * 1000000) / 1000000.0, in microseconds
TickTime(p) ==
    IF args[p].sampling_rate = Infinity THEN 0
    ELSE RoundDiv(local[p].i * TimeScale, args[p].sampling_rate)

\* the loop is followed for TickCap iterations
InTickLoop(p, f) ==
    /\ pc[p] = "loop"
    /\ fn[p] = f
    /\ PastEnd(p) \/ local[p].i < TickCap

\* for (int i = 0;; i++) with sample_interval = 0: t stays 0, the exit test
\* never holds, and the activation goes on pushing points until the memory
\* or the range of i is exhausted; it does not return
TickLoopRunsAway(p) ==
    /\ pc[p] = "loop"
    /\ fn[p] \in {"AnalogToDigitalPCM", "AnalogToDigitalDM"}
    /\ args[p].sampling_rate = Infinity
    /\ local[p].i >= TickCap
    /\ pc' = [pc EXCEPT ![p] = "runaway"]
    /\ UNCHANGED <<fn, args, local, input_signal, transmitted, output, result, ncalls, rpc>>

QuantizeTruncated(input_val, A, quant_range) ==
    ((input_val + A) * quant_range) \div (2 * A)

\* round(normalized * quant_range), normalized = (input_val / amp + 1) / 2,
\* for input_val and A = amp in units of 1/YScale
Quantize(input_val, A, quant_range) == RoundDiv((input_val + A) * quant_range, 2 * A)

PCMTick(p) ==
    /\ InTickLoop(p, "AnalogToDigitalPCM")
    /\ ~PastEnd(p)
    /\ LET t == TickTime(p)
           A == args[p].amp * YScale
           quant_range == args[p].quantization_levels - 1
           input_val == get_input_value_at_time(input_signal[p], t)
           quantized == Quantize(input_val, A, quant_range)
           reconstructed == ((2 * quantized - quant_range) * A) \div quant_range
       IN  /\ transmitted' = [transmitted EXCEPT ![p] = Append(@, Point(t, quantized))]
           /\ output' = [output EXCEPT ![p] = Append(@, Point(t, reconstructed))]
           /\ local' = [local EXCEPT ![p].i = @ + 1]
    /\ UNCHANGED <<pc, fn, args, input_signal, result, ncalls, rpc>>

PCMReturn(p) ==
    /\ InTickLoop(p, "AnalogToDigitalPCM")
    /\ PastEnd(p)
    /\ Finish(p, input_signal[p], transmitted[p], output[p])
    /\ UNCHANGED <<fn, args, local, ncalls, rpc>>

(***************************************************************************)
(* AnalogToDigitalDM.  delta_step_size is held in units of 1/StepScale.    *)
(***************************************************************************)
DMInvalidNoUpper(freq, amp, sampling_rate, delta_step_size) ==
    freq <= 0 \/ amp <= 0 \/ sampling_rate <= 0 \/ delta_step_size <= 0

DMInvalid(freq, amp, sampling_rate, delta_step_size) ==
    \/ freq <= 0 \/ amp <= 0 \/ sampling_rate <= 0
    \/ delta_step_size <= 0 \/ delta_step_size > StepScale

NoClamp(lo, hi, v) == v

\* std::max(min_approx, std::min(max_approx, approximation))
Clamp(lo, hi, v) == IF v > hi THEN hi ELSE IF v < lo THEN lo ELSE v

\* min_approx = -amp * 1.5, max_approx = amp * 1.5
MaxApprox(amp) == (amp * YScale * 3) \div 2

CallAnalogToDigitalDM(p, D) ==
    /\ CanCall(p, D)
    /\ \E freq \in D.freqs, amp \in D.amps, rate \in D.rates, step \in D.steps :
        /\ Enter(p, "AnalogToDigitalDM",
                 [NoArgs EXCEPT !.freq = freq, !.amp = amp, !.sampling_rate = rate,
                                !.delta_step_size = step])
        /\ IF DMInvalid(freq, amp, rate, step)
           THEN Finish(p, <<>>, <<>>, <<>>)
           ELSE /\ pc' = [pc EXCEPT ![p] = "loop"]
                /\ result' = [result EXCEPT ![p] = EmptyResult]
                \* output.push_back({0, approximation})
                /\ SetVectors(p, AnalogInput(freq, amp, samples_per_sec_adc), <<>>,
                              <<Point(0, FreshLocals(local[p]).approximation)>>)

DMBitTieOne(input_val, approximation) == IF input_val >= approximation THEN 1 ELSE 0

\* (input_val > approximation) ? 1.0 : 0.0
DMBit(input_val, approximation) == IF input_val > approximation THEN 1 ELSE 0

DMTick(p) ==
    /\ InTickLoop(p, "AnalogToDigitalDM")
    /\ ~PastEnd(p)
    /\ LET t == TickTime(p)
           delta == args[p].amp * args[p].delta_step_size * (YScale \div StepScale)
           input_val == get_input_value_at_time(input_signal[p], t)
           bit == DMBit(input_val, local[p].approximation)
           approximation ==
               Clamp(-MaxApprox(args[p].amp), MaxApprox(args[p].amp),
                     local[p].approximation + (IF bit = 1 THEN delta ELSE -delta))
           held == IF Len(output[p]) > 0
                   THEN <<Point(t - dm_hold_offset, Last(output[p]).y)>> ELSE <<>>
       IN  /\ transmitted' = [transmitted EXCEPT ![p] = Append(@, Point(t, bit))]
           /\ output' = [output EXCEPT ![p] = (@ \o held) \o <<Point(t, approximation)>>]
           /\ local' = [local EXCEPT ![p].i = @ + 1, ![p].approximation = approximation]
    /\ UNCHANGED <<pc, fn, args, input_signal, result, ncalls, rpc>>

DMReturn(p) ==
    /\ InTickLoop(p, "AnalogToDigitalDM")
    /\ PastEnd(p)
    /\ LET out == IF Len(output[p]) > 0
                  THEN Append(output[p], Point(Last(input_signal[p]).x, Last(output[p]).y))
                  ELSE output[p]
       IN  Finish(p, input_signal[p], transmitted[p], out)
    /\ UNCHANGED <<fn, args, local, ncalls, rpc>>

(***************************************************************************)
(* DigitalToAnalog                                                         *)
(***************************************************************************)
\* sample j (0..samples_per_bit) of bit i (0-based), in units of 1/YScale
D2APoint(type, bit, i, j) ==
    LET t == i * bit_duration + j * (bit_duration \div samples_per_bit)
        k == YScale \div SinScale
    IN  CASE type = "ASK" -> Point(t, (IF bit = "1" THEN k ELSE k \div 5) * SinAt(5, t))
          [] type = "FSK" -> Point(t, k * SinAt(IF bit = "1" THEN 7 ELSE 3, t))
          [] type = "PSK" ->
                Point(t, k * SinMilli((5 * t) \div (TimeScale \div (2 * HalfTurn))
                                          + (IF bit = "1" THEN 0 ELSE HalfTurn)))

\* the switch has cases for ASK, FSK and PSK only
D2ATransmitted(type, binary) ==
    IF type \in {"ASK", "FSK", "PSK"}
    THEN [k \in 1..(Len(binary) * (samples_per_bit + 1)) |->
             LET i == (k - 1) \div (samples_per_bit + 1)
                 j == (k - 1) % (samples_per_bit + 1)
             IN  D2APoint(type, binary[i + 1], i, j)]
    ELSE <<>>

CallDigitalToAnalog(p, D) ==
    /\ CanCall(p, D)
    /\ \E binary \in {b \in D.bins : Len(b) <= D.d2abits}, type \in D.dmods :
        /\ Enter(p, "DigitalToAnalog", [NoArgs EXCEPT !.binary = binary, !.type = type])
        /\ IF ~ValidBinary(binary)
           THEN Finish(p, <<>>, <<>>, <<>>)
           ELSE LET in == DigitalInput(binary)
                    tr == D2ATransmitted(type, binary)
                IN  Finish(p, in, tr, in)

(***************************************************************************)
(* The transport (src/cpp_server/service_impl.cpp).  Each handler holds    *)
(* its own copy of the transform; rpc is the last exchange of the service: *)
(* the request, the Status returned and the points placed in the reply.    *)
(* A handler is one action; the loops of its body are the recursive        *)
(* operators below, with the loop variables as parameters.                 *)
(***************************************************************************)
NoRequest ==
    [handler |-> "none", algorithm |-> "none", config |-> "none", frequency |-> 0,
     amplitude |-> 0, sampling_rate |-> 0, quantization_levels |-> 0,
     delta_step_size |-> 0, binary |-> <<>>]

NoRpc == [request |-> NoRequest, status |-> "NONE", reply |-> EmptyResult]

\* return Status(code, ...) before any set_data_points
SvcFail(request, code) == [request |-> request, status |-> code, reply |-> EmptyResult]

\* set_data_points of the three vectors, then return Status::OK
SvcOK(request, in, tr, out) ==
    [request |-> request, status |-> "OK",
     reply |-> [input |-> in, transmitted |-> tr, output |-> out]]

SvcInputValueAtNoInterpolation(s, time) ==
    IF Len(s) = 0 THEN 0
    ELSE IF time >= s[Len(s)].x THEN s[Len(s)].y
    ELSE s[CHOOSE k \in 1..Len(s) :
               /\ ~(s[k].x < time)
               /\ \A j \in 1..(k - 1) : s[j].x < time].y

\* the service's get_input_value_at_time; std::lower_bound gives the first
\* point whose x is not less than time
SvcInputValueAt(s, time) ==
    IF Len(s) = 0 THEN 0
    ELSE IF time <= s[1].x THEN s[1].y
    ELSE IF time >= s[Len(s)].x THEN s[Len(s)].y
    ELSE LET it == CHOOSE k \in 1..Len(s) :
                       /\ ~(s[k].x < time)
                       /\ \A j \in 1..(k - 1) : s[j].x < time
         IN  IF it = 1 THEN s[it].y
             ELSE LET p2 == s[it]
                      p1 == s[it - 1]
                  IN  IF p2.x = p1.x THEN p1.y
                      ELSE p1.y + ((time - p1.x) * (p2.y - p1.y)) \div (p2.x - p1.x)

\* the input loop of the analog handlers: point i (0-based) is
\* {i / samples_per_sec, msg_amp * sin(2 pi msg_freq t)}
SvcAnalogInput(freq, amp, sps) ==
    [k \in 1..(duration * sps) |->
        LET i == k - 1
            t == i * (TimeScale \div sps)
        IN  Point(t, amp * (YScale \div SinScale) * SinAt(freq, t))]

\* the input loop of the digital handlers: {x1, val}, {x2, val} per bit
RECURSIVE SvcDigitalInput(_, _, _)
SvcDigitalInput(binary, i, acc) ==
    IF i >= Len(binary) THEN acc
    ELSE LET val == IF binary[i + 1] = "1" THEN 1 ELSE 0
         IN  SvcDigitalInput(binary, i + 1,
                             acc \o <<Point(i * bit_duration, val),
                                      Point((i + 1) * bit_duration, val)>>)

SvcBadBinary(binary) ==
    \/ Len(binary) = 0
    \/ \E k \in 1..Len(binary) : binary[k] # "0" /\ binary[k] # "1"

(***************************************************************************)
(* AnalogToAnalog handler                                                  *)
(***************************************************************************)
\* one iteration of the AM / FM / PM loop for the input point pt
SvcModulated(algorithm, freq, amp, pt) ==
    LET msg == (pt.y * SinScale) \div (amp * YScale)
        carrier == (5 * freq * pt.x) \div (TimeScale \div (2 * HalfTurn))
    IN  IF algorithm = "AM"
        THEN ((10 * SinScale + 8 * msg) * SinMilli(carrier)) \div SinScale
        ELSE IF algorithm = "FM"
        THEN (YScale \div SinScale)
                 * SinMilli(carrier + (5 * msg * (pt.x \div SinScale)) \div (2 * SinScale))
        ELSE (YScale \div SinScale) * SinMilli(carrier + (msg * HalfTurn) \div (2 * SinScale))

SvcAnalogToAnalogSelectorFirst(request) ==
    IF request.algorithm \notin {"AM", "FM", "PM"}
    THEN SvcFail(request, "UNIMPLEMENTED")
    ELSE IF request.frequency <= 0 \/ request.amplitude <= 0
    THEN SvcFail(request, "INVALID_ARGUMENT")
    ELSE SvcOK(request, <<>>, <<>>, <<>>)

SvcAnalogToAnalog(request) ==
    IF request.frequency <= 0 \/ request.amplitude <= 0
    THEN SvcFail(request, "INVALID_ARGUMENT")
    ELSE LET in == SvcAnalogInput(request.frequency, request.amplitude,
                                  samples_per_sec_a2a)
         IN  IF request.algorithm \notin {"AM", "FM", "PM"}
             THEN SvcFail(request, "UNIMPLEMENTED")
             ELSE SvcOK(request, in,
                        [k \in 1..Len(in) |->
                            Point(in[k].x, SvcModulated(request.algorithm, request.frequency,
                                                        request.amplitude, in[k]))],
                        in)

(***************************************************************************)
(* AnalogToDigital handler: the oneof config selects PCM or DM             *)
(***************************************************************************)
\* the PCM loop from tick i on; tr and out are the vectors so far
RECURSIVE SvcPCMLoop(_, _, _, _, _, _, _)
SvcPCMLoop(in, rate, A, quant_range, i, tr, out) ==
    IF i * TimeScale > in[Len(in)].x * rate THEN [transmitted |-> tr, output |-> out]
    ELSE LET t == RoundDiv(i * TimeScale, rate)
             input_val == SvcInputValueAt(in, t)
             quantized == RoundDiv((input_val + A) * quant_range, 2 * A)
             reconstructed == ((2 * quantized - quant_range) * A) \div quant_range
         IN  SvcPCMLoop(in, rate, A, quant_range, i + 1,
                        Append(tr, Point(t, quantized)), Append(out, Point(t, reconstructed)))

\* the DM loop from tick i on, then the "extend last value" point
RECURSIVE SvcDMLoop(_, _, _, _, _, _, _, _)
SvcDMLoop(in, rate, delta, max_approx, i, approximation, tr, out) ==
    IF i * TimeScale > in[Len(in)].x * rate
    THEN [transmitted |-> tr,
          output |-> IF Len(out) > 0
                     THEN Append(out, Point(in[Len(in)].x, out[Len(out)].y)) ELSE out]
    ELSE LET t == RoundDiv(i * TimeScale, rate)
             input_val == SvcInputValueAt(in, t)
             bit == IF input_val > approximation THEN 1 ELSE 0
             moved == approximation + (IF bit = 1 THEN delta ELSE -delta)
             next == Clamp(-max_approx, max_approx, moved)
             held == IF Len(out) > 0
                     THEN Append(out, Point(t - dm_hold_offset, out[Len(out)].y)) ELSE out
         IN  SvcDMLoop(in, rate, delta, max_approx, i + 1, next,
                       Append(tr, Point(t, bit)), Append(held, Point(t, next)))

SvcAnalogToDigital(request) ==
    IF request.frequency <= 0 \/ request.amplitude <= 0
    THEN SvcFail(request, "INVALID_ARGUMENT")
    ELSE LET in == SvcAnalogInput(request.frequency, request.amplitude,
                                  samples_per_sec_adc)
             A == request.amplitude * YScale
         IN  IF request.config = "pcm"
             THEN IF request.sampling_rate <= 0 \/ request.quantization_levels < 2
                  THEN SvcFail(request, "INVALID_ARGUMENT")
                  ELSE LET r == SvcPCMLoop(in, request.sampling_rate, A,
                                           request.quantization_levels - 1, 0, <<>>, <<>>)
                       IN  SvcOK(request, in, r.transmitted, r.output)
             ELSE IF request.config = "delta_modulation"
             THEN IF \/ request.sampling_rate <= 0
                     \/ request.delta_step_size <= 0
                     \/ request.delta_step_size > StepScale
                  THEN SvcFail(request, "INVALID_ARGUMENT")
                  ELSE LET r == SvcDMLoop(in, request.sampling_rate,
                                          request.amplitude * request.delta_step_size
                                              * (YScale \div StepScale),
                                          (A * 3) \div 2, 0, 0, <<>>, <<Point(0, 0)>>)
                       IN  SvcOK(request, in, r.transmitted, r.output)
             \* "Missing configuration"
             ELSE SvcFail(request, "INVALID_ARGUMENT")

(***************************************************************************)
(* DigitalToAnalog handler                                                 *)
(***************************************************************************)
\* the inner loop body of the ASK / FSK / PSK cases: sample j of bit i
SvcKeyed(algorithm, bit, i, j) ==
    LET t == i * bit_duration + j * (bit_duration \div samples_per_bit)
        unit == YScale \div SinScale
    IN  IF algorithm = "ASK"
        THEN Point(t, (IF bit = "1" THEN unit ELSE unit \div 5) * SinAt(5, t))
        ELSE IF algorithm = "FSK"
        THEN Point(t, unit * SinAt(IF bit = "1" THEN 7 ELSE 3, t))
        ELSE Point(t, unit * SinMilli((5 * t) \div (TimeScale \div (2 * HalfTurn))
                                          + (IF bit = "1" THEN 0 ELSE HalfTurn)))

SvcDigitalToAnalog(request) ==
    IF SvcBadBinary(request.binary)
    THEN SvcFail(request, "INVALID_ARGUMENT")
    ELSE LET in == SvcDigitalInput(request.binary, 0, <<>>)
         IN  IF request.algorithm \notin {"ASK", "FSK", "PSK"}
             THEN SvcFail(request, "UNIMPLEMENTED")
             ELSE SvcOK(request, in,
                        [k \in 1..(Len(request.binary) * (samples_per_bit + 1)) |->
                            LET i == (k - 1) \div (samples_per_bit + 1)
                                j == (k - 1) % (samples_per_bit + 1)
                            IN  SvcKeyed(request.algorithm, request.binary[i + 1], i, j)],
                        in)

(***************************************************************************)
(* DigitalToDigital handler                                                *)
(***************************************************************************)
\* {i * bit_duration, v}, {(i + 1) * bit_duration, v}
SvcHold(i, v) == <<Point(i * bit_duration, v), Point((i + 1) * bit_duration, v)>>

\* base, mid, mid, end of a bit with a mid-bit transition
SvcSplit(i, first, second) ==
    <<Point(i * bit_duration, first), Point(i * bit_duration + bit_duration \div 2, first),
      Point(i * bit_duration + bit_duration \div 2, second),
      Point((i + 1) * bit_duration, second)>>

\* the for (j ...) loop pushing one substitution pattern from bit i on
RECURSIVE SvcPattern(_, _, _, _)
SvcPattern(i, pattern, j, acc) ==
    IF j >= Len(pattern) THEN acc
    ELSE SvcPattern(i, pattern, j + 1,
                    acc \o <<Point((i + j) * bit_duration, pattern[j + 1]),
                             Point((i + j + 1) * bit_duration, pattern[j + 1])>>)

\* is_eight_zeros / is_four_zeros in the handler
SvcZeros(binary, i, n) ==
    IF i + (n - 1) < Len(binary)
    THEN \A j \in 0..(n - 1) : binary[i + j + 1] = "0"
    ELSE FALSE

\* the for (i ...) loop of one case of the switch, from cursor i on; level is
\* current_level, polarity is last_one_polarity (last_zero_polarity in the
\* PSEUDOTERNARY case), ones is ones_count, tr is transmitted so far
RECURSIVE SvcLineLoop(_, _, _, _, _, _, _)
SvcLineLoop(algorithm, binary, i, level, polarity, ones, tr) ==
    IF i >= Len(binary) THEN tr
    ELSE LET bit == binary[i + 1]
             mark == IF bit = "1" THEN -polarity ELSE 0
         IN  CASE algorithm = "NRZ_L" ->
                    SvcLineLoop(algorithm, binary, i + 1, level, polarity, ones,
                                tr \o SvcHold(i, IF bit = "0" THEN 1 ELSE -1))
               [] algorithm = "NRZ_I" ->
                    LET l == IF bit = "1" THEN -level ELSE level
                    IN  SvcLineLoop(algorithm, binary, i + 1, l, polarity, ones,
                                    tr \o SvcHold(i, l))
               [] algorithm = "MANCHESTER" ->
                    SvcLineLoop(algorithm, binary, i + 1, level, polarity, ones,
                                tr \o (IF bit = "0" THEN SvcSplit(i, 1, -1)
                                       ELSE SvcSplit(i, -1, 1)))
               [] algorithm = "DIFFERENTIAL_MANCHESTER" ->
                    LET l == IF bit = "0" THEN -level ELSE level
                    IN  SvcLineLoop(algorithm, binary, i + 1, -l, polarity, ones,
                                    tr \o SvcSplit(i, l, -l))
               [] algorithm = "AMI" ->
                    SvcLineLoop(algorithm, binary, i + 1, level,
                                IF bit = "1" THEN mark ELSE polarity, ones,
                                tr \o SvcHold(i, mark))
               [] algorithm = "PSEUDOTERNARY" ->
                    LET space == IF bit = "0" THEN -polarity ELSE 0
                    IN  SvcLineLoop(algorithm, binary, i + 1, level,
                                    IF bit = "0" THEN space ELSE polarity, ones,
                                    tr \o SvcHold(i, space))
               [] algorithm = "B8ZS" ->
                    IF SvcZeros(binary, i, 8)
                    THEN LET V == polarity
                             B == -polarity
                         IN  SvcLineLoop(algorithm, binary, i + 8, level, B, ones,
                                         SvcPattern(i, <<0, 0, 0, V, B, 0, V, B>>, 0, tr))
                    ELSE SvcLineLoop(algorithm, binary, i + 1, level,
                                     IF bit = "1" THEN mark ELSE polarity, ones,
                                     tr \o SvcHold(i, mark))
               [] algorithm = "HDB3" ->
                    IF SvcZeros(binary, i, 4)
                    THEN LET pattern == IF ones % 2 = 0
                                        THEN <<0, 0, 0, polarity>>
                                        ELSE <<-polarity, 0, 0, -polarity>>
                         IN  SvcLineLoop(algorithm, binary, i + 4, level, pattern[4], 0,
                                         SvcPattern(i, pattern, 0, tr))
                    ELSE SvcLineLoop(algorithm, binary, i + 1, level,
                                     IF bit = "1" THEN mark ELSE polarity,
                                     IF bit = "1" THEN ones + 1 ELSE ones,
                                     tr \o SvcHold(i, mark))

SvcDigitalToDigital(request) ==
    IF SvcBadBinary(request.binary)
    THEN SvcFail(request, "INVALID_ARGUMENT")
    ELSE LET in == SvcDigitalInput(request.binary, 0, <<>>)
         IN  IF request.algorithm \notin LineCoding
             THEN SvcFail(request, "UNIMPLEMENTED")
             ELSE SvcOK(request, in,
                        SvcLineLoop(request.algorithm, request.binary, 0, 1, -1, 0, <<>>),
                        in)

(***************************************************************************)
(* A client sends the service the request it gave the core, with the same  *)
(* selector or with a value outside the handler's switch; for              *)
(* AnalogToDigital, with the matching config or with none.                 *)
(***************************************************************************)
Unrecognized == "UNRECOGNIZED"

Forward(p, handler, algorithm, config) ==
    [handler |-> handler, algorithm |-> algorithm, config |-> config,
     frequency |-> args[p].freq, amplitude |-> args[p].amp,
     sampling_rate |-> args[p].sampling_rate,
     quantization_levels |-> args[p].quantization_levels,
     delta_step_size |-> args[p].delta_step_size, binary |-> args[p].binary]

CanServe(p, f) ==
    /\ pc[p] = "done"
    /\ fn[p] \in f
    /\ rpc.status = "NONE"

Served(r) ==
    /\ rpc' = r
    /\ UNCHANGED <<pc, fn, args, local, input_signal, transmitted, output, result, ncalls>>

ServeAnalogToAnalog(p) ==
    /\ CanServe(p, {"AnalogToAnalog"})
    /\ \E algorithm \in {args[p].type, Unrecognized} :
          Served(SvcAnalogToAnalog(Forward(p, "AnalogToAnalog", algorithm, "none")))

ServeAnalogToDigital(p) ==
    /\ CanServe(p, {"AnalogToDigitalPCM", "AnalogToDigitalDM"})
    /\ \E config \in {IF fn[p] = "AnalogToDigitalPCM" THEN "pcm" ELSE "delta_modulation",
                      "none"} :
          Served(SvcAnalogToDigital(Forward(p, "AnalogToDigital", "none", config)))

ServeDigitalToAnalog(p) ==
    /\ CanServe(p, {"DigitalToAnalog"})
    /\ \E algorithm \in {args[p].type, Unrecognized} :
          Served(SvcDigitalToAnalog(Forward(p, "DigitalToAnalog", algorithm, "none")))

ServeDigitalToDigital(p) ==
    /\ CanServe(p, {"DigitalToDigital"})
    /\ \E algorithm \in {args[p].type, Unrecognized} :
          Served(SvcDigitalToDigital(Forward(p, "DigitalToDigital", algorithm, "none")))

Serve(p) ==
    \/ ServeAnalogToAnalog(p)
    \/ ServeAnalogToDigital(p)
    \/ ServeDigitalToAnalog(p)
    \/ ServeDigitalToDigital(p)

(***************************************************************************)
(* Specifications.  Spec: one caller, one call, arguments drawn from the   *)
(* wide sets, followed by one exchange with the service for the same       *)
(* request.  SpecConc: two callers interleaving up to MaxCalls calls each, *)
(* arguments drawn from the narrow sets.                                   *)
(***************************************************************************)
Init ==
    /\ pc = [p \in Procs |-> "idle"]
    /\ fn = [p \in Procs |-> "none"]
    /\ args = [p \in Procs |-> NoArgs]
    /\ local = [p \in Procs |-> NoLocals]
    /\ input_signal = [p \in Procs |-> <<>>]
    /\ transmitted = [p \in Procs |-> <<>>]
    /\ output = [p \in Procs |-> <<>>]
    /\ result = [p \in Procs |-> EmptyResult]
    /\ ncalls = [p \in Procs |-> 0]
    /\ rpc = NoRpc

Step(p, D) ==
    \/ CallAnalogToAnalog(p, D)
    \/ CallAnalogToDigitalPCM(p, D)
    \/ PCMTick(p)
    \/ PCMReturn(p)
    \/ CallAnalogToDigitalDM(p, D)
    \/ DMTick(p)
    \/ DMReturn(p)
    \/ CallDigitalToAnalog(p, D)
    \/ CallDigitalToDigital(p, D)
    \/ NRZ_L_Step(p)
    \/ NRZ_I_Step(p)
    \/ MANCHESTER_Step(p)
    \/ DIFFERENTIAL_MANCHESTER_Step(p)
    \/ AMI_Step(p)
    \/ PSEUDOTERNARY_Step(p)
    \/ B8ZS_Step(p)
    \/ HDB3_Step(p)
    \/ DigitalToDigitalReturn(p)

Next == Step(1, Wide) \/ Serve(1) \/ TickLoopRunsAway(1)

Spec == Init /\ [][Next]_vars

NextConc == \E p \in Procs : Step(p, Narrow)

SpecConc == Init /\ [][NextConc]_vars

(***************************************************************************)
(* Properties                                                              *)
(***************************************************************************)
Done(p) == pc[p] = "done"

Ys(s) == [k \in 1..Len(s) |-> s[k].y]

\* the points of consecutive bit intervals b, b+1, ... held at the given levels
LevelPoints(b, levels) ==
    [k \in 1..(2 * Len(levels)) |->
        [x |-> (b + (k \div 2)) * 1000000, y |-> levels[(k + 1) \div 2]]]

\* the polarity of the most recent non-zero level of tr, -1 when there is none
LastPulse(tr) ==
    LET nz == {k \in 1..Len(tr) : tr[k].y # 0}
    IN  IF nz = {} THEN -1 ELSE tr[CHOOSE k \in nz : \A j \in nz : j <= k].y

\* the number of '1' among the first n bits
CountOnes(binary, n) == Cardinality({k \in 1..n : binary[k] = "1"})

HasBadChar(binary) == \E k \in 1..Len(binary) : binary[k] # "0" /\ binary[k] # "1"

\* C1: DigitalToDigital and DigitalToAnalog, under every scheme, return empty
\* input, transmitted and output for a bit string that is empty or holds a
\* character other than '0' and '1' at any position.
C1_InvalidBinaryAllEmpty ==
    \A p \in Procs :
        (/\ Done(p)
         /\ fn[p] \in {"DigitalToDigital", "DigitalToAnalog"}
         /\ (Len(args[p].binary) = 0 \/ HasBadChar(args[p].binary)))
        => /\ result[p].input = <<>>
           /\ result[p].transmitted = <<>>
           /\ result[p].output = <<>>

\* a rejected string whose first character is a valid bit
C1_Witness ==
    \E p \in Procs :
        /\ Done(p)
        /\ fn[p] = "DigitalToDigital"
        /\ Len(args[p].binary) >= 2
        /\ args[p].binary[1] = "1"
        /\ HasBadChar(args[p].binary)
        /\ result[p] = EmptyResult

\* C2: the analog-input transforms return the empty sentinel exactly when a
\* parameter is invalid (AnalogToAnalog: frequency <= 0 or amplitude <= 0; PCM:
\* also sampling_rate <= 0 or quantization_levels < 2; DM: also sampling_rate
\* <= 0 or delta_step_size outside (0,1]); otherwise input and transmitted are
\* both non-empty.
C2_SentinelIffInvalid ==
    \A p \in Procs :
        (Done(p) /\ fn[p] \in {"AnalogToAnalog", "AnalogToDigitalPCM", "AnalogToDigitalDM"})
        => LET a == args[p]
               bad == \/ a.freq <= 0
                      \/ a.amp <= 0
                      \/ fn[p] # "AnalogToAnalog" /\ a.sampling_rate <= 0
                      \/ fn[p] = "AnalogToDigitalPCM" /\ a.quantization_levels < 2
                      \/ fn[p] = "AnalogToDigitalDM"
                            /\ (a.delta_step_size <= 0 \/ a.delta_step_size > 10)
           IN  IF bad
               THEN result[p].input = <<>> /\ result[p].transmitted = <<>>
               ELSE result[p].input # <<>> /\ result[p].transmitted # <<>>

\* a delta step above 1 with every other parameter valid is rejected
C2_Witness ==
    \E p \in Procs :
        /\ Done(p)
        /\ fn[p] = "AnalogToDigitalDM"
        /\ args[p].freq > 0 /\ args[p].amp > 0 /\ args[p].sampling_rate > 0
        /\ args[p].delta_step_size > 10
        /\ result[p] = EmptyResult

\* C3: no partial results: every returned bundle has input, transmitted and
\* output all empty or all non-empty, for every value of the scheme selector.
C3_NoPartialResults ==
    \A p \in Procs :
        Done(p)
        => \/ result[p].input = <<>> /\ result[p].transmitted = <<>> /\ result[p].output = <<>>
           \/ result[p].input # <<>> /\ result[p].transmitted # <<>> /\ result[p].output # <<>>

NonDecreasingX(s) == \A k \in 1..(Len(s) - 1) : s[k].x <= s[k + 1].x

NonNegativeX(s) == \A k \in 1..Len(s) : s[k].x >= 0

\* C4: in every sequence of every returned bundle the x values are
\* non-decreasing and non-negative, the Delta Modulation staircase included.
C4_XOrdered ==
    \A p \in Procs :
        Done(p)
        => /\ NonDecreasingX(result[p].input) /\ NonNegativeX(result[p].input)
           /\ NonDecreasingX(result[p].transmitted) /\ NonNegativeX(result[p].transmitted)
           /\ NonDecreasingX(result[p].output) /\ NonNegativeX(result[p].output)

\* C5: the sequences a call returns depend only on its arguments: two callers
\* that have returned from calls with the same transform and arguments hold
\* the same sequences, whatever ran before or in between; and every activation
\* starts with cursor 0, level +1, polarity seed -1, mark counter 0 and
\* approximation 0.
C5_Deterministic ==
    /\ \A p, q \in Procs :
          (Done(p) /\ Done(q) /\ fn[p] = fn[q] /\ args[p] = args[q])
          => result[p] = result[q]
    /\ \A p \in Procs :
          (pc[p] = "loop" /\ local[p].i = 0)
          => /\ local[p].current_level = 1
             /\ local[p].last_one_polarity = -1
             /\ local[p].ones_count = 0
             /\ local[p].approximation = 0

\* caller 1 returns from its second call with the arguments of caller 2's first
C5_Witness ==
    /\ Done(1) /\ Done(2)
    /\ ncalls[1] = 2 /\ ncalls[2] = 1
    /\ fn[1] = "DigitalToDigital" /\ fn[2] = "DigitalToDigital"
    /\ args[1] = args[2]
    /\ args[1].type = "AMI"
    /\ Ys(result[1].transmitted) = <<1, 1>>

\* C6: with valid parameters the Delta Modulation approximation starts at 0 and after every tick
\* lies in [-1.5 amplitude, +1.5 amplitude], and so does every output y.
C6_DMApproximationBounded ==
    \A p \in Procs :
        (/\ fn[p] = "AnalogToDigitalDM"
         /\ pc[p] \in {"loop", "done"}
         /\ args[p].freq > 0 /\ args[p].amp > 0 /\ args[p].sampling_rate > 0
         /\ args[p].delta_step_size > 0 /\ args[p].delta_step_size <= 10)
        => LET lim == 3 * args[p].amp * 10000
               Within(s) == \A k \in 1..Len(s) : -lim <= 2 * s[k].y /\ 2 * s[k].y <= lim
           IN  /\ -lim <= 2 * local[p].approximation
               /\ 2 * local[p].approximation <= lim
               /\ (pc[p] = "loop" /\ local[p].i = 0) => local[p].approximation = 0
               /\ Within(output[p])
               /\ Within(result[p].output)

\* the approximation sits on the upper limit, which steps of 0.8 amplitude
\* from 0 reach only by being cut off
C6_Witness ==
    \E p \in Procs :
        /\ fn[p] = "AnalogToDigitalDM"
        /\ pc[p] = "loop"
        /\ args[p].delta_step_size = 8
        /\ 2 * local[p].approximation = 3 * args[p].amp * 10000

\* the step of caller p inside the per-bit loop of line code type
LineIteration(p, type) ==
    /\ pc[p] = "loop"
    /\ fn[p] = "DigitalToDigital"
    /\ args[p].type = type
    /\ local'[p] # local[p]

AllZero(binary, i, n) ==
    /\ i + n <= Len(binary)
    /\ \A k \in (i + 1)..(i + n) : binary[k] = "0"

\* the AMI rule seen from outside: a '0' is sent at 0 and leaves the polarity,
\* a '1' is sent opposite to the most recent pulse P and becomes the polarity
FollowsAMI(p, P) ==
    LET i == local[p].i
        lvl == IF args[p].binary[i + 1] = "1" THEN -P ELSE 0
    IN  /\ transmitted'[p] = transmitted[p] \o LevelPoints(i, <<lvl>>)
        /\ local'[p].i = i + 1
        /\ local'[p].last_one_polarity = (IF args[p].binary[i + 1] = "1" THEN -P ELSE P)

\* C7: B8ZS: with the cursor before eight '0' bits and P the polarity of the
\* most recent pulse (-1 when none), the eight intervals are sent as
\* 0,0,0,P,-P,0,P,-P, the cursor advances by 8 and the polarity becomes -P;
\* every other bit follows the AMI rule.
C7_B8ZSSubstitution ==
    [][\A p \in Procs :
          LineIteration(p, "B8ZS")
          => LET i == local[p].i
                 P == LastPulse(transmitted[p])
             IN  IF AllZero(args[p].binary, i, 8)
                 THEN /\ transmitted'[p] =
                            transmitted[p] \o LevelPoints(i, <<0, 0, 0, P, -P, 0, P, -P>>)
                      /\ local'[p].i = i + 8
                      /\ local'[p].last_one_polarity = -P
                 ELSE FollowsAMI(p, P)]_vars

\* a mark at +1, the substitution 000+-0+-, and the next mark at +1 again
C7_Witness ==
    \E p \in Procs :
        /\ Done(p)
        /\ fn[p] = "DigitalToDigital"
        /\ args[p].type = "B8ZS"
        /\ args[p].binary = <<"1">> \o Zeros(8) \o <<"1">>
        /\ result[p].transmitted =
               LevelPoints(0, <<1, 0, 0, 0, 1, -1, 0, 1, -1, 1>>)

\* the '1' bits before cursor i that follow the last substitution: a
\* substitution ends in a non-zero level on a '0' bit
MarksSinceSubstitution(binary, tr, i) ==
    LET subs == {b \in 1..i : binary[b] = "0" /\ tr[2 * b].y # 0}
        from == IF subs = {} THEN 0 ELSE CHOOSE b \in subs : \A c \in subs : c <= b
    IN  Cardinality({b \in (from + 1)..i : binary[b] = "1"})

\* C8: HDB3: with the cursor before four '0' bits, an even number of marks
\* since the last substitution gives 0,0,0,V with V the polarity P of the last
\* pulse (seed -1), an odd number gives B,0,0,V with B = V = -P; then the
\* cursor has advanced by 4, the mark counter is 0 and the polarity is V.
\* Every other bit follows the AMI rule and a '1' increments the counter.
C8_HDB3Substitution ==
    [][\A p \in Procs :
          LineIteration(p, "HDB3")
          => LET i == local[p].i
                 P == LastPulse(transmitted[p])
                 marks == MarksSinceSubstitution(args[p].binary, transmitted[p], i)
                 V == IF marks % 2 = 0 THEN P ELSE -P
             IN  IF AllZero(args[p].binary, i, 4)
                 THEN /\ transmitted'[p] =
                            transmitted[p]
                                \o LevelPoints(i, <<IF marks % 2 = 0 THEN 0 ELSE -P, 0, 0, V>>)
                      /\ local'[p].i = i + 4
                      /\ local'[p].ones_count = 0
                      /\ local'[p].last_one_polarity = V
                 ELSE /\ FollowsAMI(p, P)
                      /\ local[p].ones_count = marks
                      /\ local'[p].ones_count =
                            marks + (IF args[p].binary[i + 1] = "1" THEN 1 ELSE 0)]_vars

\* one mark then four zeros (odd: B00V), one mark more, four zeros again
C8_Witness ==
    \E p \in Procs :
        /\ Done(p)
        /\ fn[p] = "DigitalToDigital"
        /\ args[p].type = "HDB3"
        /\ args[p].binary = <<"1">> \o Zeros(4) \o Zeros(4)
        /\ Ys(result[p].transmitted)
               = Ys(LevelPoints(0, <<1, -1, 0, 0, -1, 0, 0, 0, -1>>))

\* C9: AMI: every '0' is sent at 0 and the k-th '1' at +1 for odd k, -1 for
\* even k; "1010" gives the y values 1,1,0,0,-1,-1,0,0.
C9_AMIAlternates ==
    \A p \in Procs :
        (/\ Done(p)
         /\ fn[p] = "DigitalToDigital"
         /\ args[p].type = "AMI"
         /\ Len(args[p].binary) > 0
         /\ ~HasBadChar(args[p].binary))
        => LET binary == args[p].binary
               tr == result[p].transmitted
               lvl(b) == IF binary[b] = "0" THEN 0
                         ELSE IF CountOnes(binary, b) % 2 = 1 THEN 1 ELSE -1
           IN  /\ Len(tr) = 2 * Len(binary)
               /\ \A b \in 1..Len(binary) : tr[2 * b - 1].y = lvl(b) /\ tr[2 * b].y = lvl(b)
               /\ binary = <<"1", "0", "1", "0">> => Ys(tr) = <<1, 1, 0, 0, -1, -1, 0, 0>>

C9_Witness ==
    \E p \in Procs :
        /\ Done(p)
        /\ fn[p] = "DigitalToDigital"
        /\ args[p].type = "AMI"
        /\ args[p].binary = <<"1", "0", "1", "0">>
        /\ Ys(result[p].transmitted) = <<1, 1, 0, 0, -1, -1, 0, 0>>

\* C10: NRZ-I: the level starts at +1, is negated by each '1' and held by each
\* '0': bit i is sent at +1 when the number of '1' among bits 0..i is even,
\* at -1 when it is odd; "0110" gives 1,1,-1,-1,1,1,1,1.
C10_NRZIParity ==
    \A p \in Procs :
        (/\ Done(p)
         /\ fn[p] = "DigitalToDigital"
         /\ args[p].type = "NRZ_I"
         /\ Len(args[p].binary) > 0
         /\ ~HasBadChar(args[p].binary))
        => LET binary == args[p].binary
               tr == result[p].transmitted
               lvl(b) == IF CountOnes(binary, b) % 2 = 0 THEN 1 ELSE -1
           IN  /\ Len(tr) = 2 * Len(binary)
               /\ \A b \in 1..Len(binary) : tr[2 * b - 1].y = lvl(b) /\ tr[2 * b].y = lvl(b)
               /\ binary = <<"0", "1", "1", "0">> => Ys(tr) = <<1, 1, -1, -1, 1, 1, 1, 1>>

C10_Witness ==
    \E p \in Procs :
        /\ Done(p)
        /\ fn[p] = "DigitalToDigital"
        /\ args[p].type = "NRZ_I"
        /\ args[p].binary = <<"0", "1", "1", "0">>
        /\ Ys(result[p].transmitted) = <<1, 1, -1, -1, 1, 1, 1, 1>>

ValidPCM(p) ==
    /\ fn[p] = "AnalogToDigitalPCM"
    /\ ~PCMInvalid(args[p].freq, args[p].amp, args[p].sampling_rate,
                   args[p].quantization_levels)

\* C11: PCM with L = quantization_levels >= 2.  Every transmitted y is an
\* integer index k in 0..L-1, the integer nearest (half away from zero) to
\* ((v / amp) + 1) / 2 * (L - 1), v the input interpolated at the tick; the
\* output y at the same x is (k / (L - 1) * 2 - 1) * amp (held to 1/YScale,
\* rounded down); for L = 2 every output y is +amp or -amp; transmitted and
\* output have the same length and the same x values.
C11_PCMQuantization ==
    \A p \in Procs :
        (Done(p) /\ ValidPCM(p)) =>
            LET r == result[p]
                L == args[p].quantization_levels
                amp == args[p].amp * 10000
            IN  /\ Len(r.transmitted) = Len(r.output)
                /\ \A n \in 1..Len(r.transmitted) :
                      LET k == r.transmitted[n].y
                          y == r.output[n].y
                          v == get_input_value_at_time(r.input, r.transmitted[n].x)
                      IN  /\ r.output[n].x = r.transmitted[n].x
                          /\ k \in 0..(L - 1)
                          \* k - 1/2 <= (v + amp) * (L - 1) / (2 * amp) < k + 1/2
                          /\ (2 * k - 1) * amp <= (v + amp) * (L - 1)
                          /\ (v + amp) * (L - 1) < (2 * k + 1) * amp
                          \* y <= (2 * k - (L - 1)) * amp / (L - 1) < y + 1
                          /\ y * (L - 1) <= (2 * k - (L - 1)) * amp
                          /\ (2 * k - (L - 1)) * amp < (y + 1) * (L - 1)
                          /\ (L = 2 => y \in {amp, -amp})

\* a PCM result with two levels that holds both +amp and -amp, and one with
\* more levels whose indices reach both ends of the range
C11_Witness ==
    /\ Done(1) /\ ValidPCM(1)
    /\ args[1].quantization_levels = 2
    /\ \E m, n \in 1..Len(result[1].output) :
          /\ result[1].output[m].y = args[1].amp * 10000
          /\ result[1].output[n].y = -(args[1].amp * 10000)
          /\ result[1].transmitted[m].y = 1
          /\ result[1].transmitted[n].y = 0


ValidCall(p) ==
    CASE fn[p] = "AnalogToAnalog" -> ~A2AInvalid(args[p].freq, args[p].amp)
      [] fn[p] \in {"DigitalToAnalog", "DigitalToDigital"} -> ValidBinary(args[p].binary)
      [] fn[p] = "AnalogToDigitalPCM" -> ValidPCM(p)
      [] fn[p] = "AnalogToDigitalDM" ->
            ~DMInvalid(args[p].freq, args[p].amp, args[p].sampling_rate,
                       args[p].delta_step_size)
      [] OTHER -> FALSE

\* C12: for every valid call of AnalogToAnalog, DigitalToAnalog and
\* DigitalToDigital the output sequence equals the input sequence point for
\* point; for AnalogToAnalog input, transmitted and output each have exactly
\* 400 points and transmitted[i].x = input[i].x for every i.
C12_OutputIsInput ==
    \A p \in Procs :
        (/\ Done(p)
         /\ fn[p] \in {"AnalogToAnalog", "DigitalToAnalog", "DigitalToDigital"}
         /\ ValidCall(p))
        => /\ Len(result[p].output) = Len(result[p].input)
           /\ \A k \in 1..Len(result[p].input) : result[p].output[k] = result[p].input[k]
           /\ fn[p] = "AnalogToAnalog" =>
                 /\ Len(result[p].input) = 400
                 /\ Len(result[p].transmitted) = 400
                 /\ Len(result[p].output) = 400
                 /\ \A k \in 1..400 : result[p].transmitted[k].x = result[p].input[k].x

\* a returned line code whose transmitted levels differ from the input levels
C12_Witness ==
    /\ Done(1) /\ ValidCall(1)
    /\ fn[1] = "DigitalToDigital"
    /\ args[1].type = "B8ZS"
    /\ Len(result[1].input) = 16
    /\ result[1].transmitted # result[1].input
    /\ result[1].output = result[1].input


\* the selector values with a case in the handler's switch
Recognized(handler) ==
    CASE handler = "AnalogToAnalog" -> {"AM", "FM", "PM"}
      [] handler = "DigitalToAnalog" -> {"ASK", "FSK", "PSK"}
      [] handler = "DigitalToDigital" -> LineCoding
      [] OTHER -> {}

HasSelector(request) ==
    request.handler \in {"AnalogToAnalog", "DigitalToAnalog", "DigitalToDigital"}

\* the parameters for which the core transform returns the empty sentinel
SentinelParams(request) ==
    CASE request.handler = "AnalogToAnalog" ->
            A2AInvalid(request.frequency, request.amplitude)
      [] request.handler \in {"DigitalToAnalog", "DigitalToDigital"} ->
            ~ValidBinary(request.binary)
      [] request.handler = "AnalogToDigital" /\ request.config = "pcm" ->
            PCMInvalid(request.frequency, request.amplitude, request.sampling_rate,
                       request.quantization_levels)
      [] request.handler = "AnalogToDigital" /\ request.config = "delta_modulation" ->
            DMInvalid(request.frequency, request.amplitude, request.sampling_rate,
                      request.delta_step_size)
      [] OTHER -> FALSE

Answered == rpc.status # "NONE"

NoPoints(reply) ==
    /\ reply.input = <<>>
    /\ reply.transmitted = <<>>
    /\ reply.output = <<>>

\* C13 as stated: every request whose selector is outside the recognized set
\* is answered UNIMPLEMENTED whatever its other parameter values; every
\* request with a recognized selector whose parameters would make the core
\* return the empty sentinel is answered INVALID_ARGUMENT; every non-OK reply
\* carries no input, transmitted or output points.
C13_ErrorMappingAsStated ==
    Answered =>
        /\ (HasSelector(rpc.request)
               /\ rpc.request.algorithm \notin Recognized(rpc.request.handler))
           => rpc.status = "UNIMPLEMENTED"
        /\ (HasSelector(rpc.request)
               /\ rpc.request.algorithm \in Recognized(rpc.request.handler)
               /\ SentinelParams(rpc.request))
           => rpc.status = "INVALID_ARGUMENT"
        /\ rpc.status # "OK" => NoPoints(rpc.reply)

\* C13, amended: the handlers validate the parameters before they look at
\* the selector.  Every request whose parameters would make the core return
\* the empty sentinel is answered INVALID_ARGUMENT, whatever its selector; a
\* request with valid parameters and a selector outside the recognized set is
\* answered UNIMPLEMENTED; an AnalogToDigital request with neither a PCM nor
\* a DM config is answered INVALID_ARGUMENT; every non-OK reply carries no
\* input, transmitted or output points.
C13_ErrorMapping ==
    Answered =>
        /\ SentinelParams(rpc.request) => rpc.status = "INVALID_ARGUMENT"
        /\ (HasSelector(rpc.request)
               /\ ~SentinelParams(rpc.request)
               /\ rpc.request.algorithm \notin Recognized(rpc.request.handler))
           => rpc.status = "UNIMPLEMENTED"
        /\ (rpc.request.handler = "AnalogToDigital" /\ rpc.request.config = "none")
           => rpc.status = "INVALID_ARGUMENT"
        /\ rpc.status # "OK" => NoPoints(rpc.reply)

\* a request with an unrecognized selector and a bad bit string, answered
\* INVALID_ARGUMENT
C13_Witness ==
    /\ Answered
    /\ rpc.request.handler = "DigitalToDigital"
    /\ rpc.request.algorithm = Unrecognized
    /\ HasBadChar(rpc.request.binary)
    /\ rpc.status = "INVALID_ARGUMENT"
    /\ NoPoints(rpc.reply)

\* a request with an unrecognized selector and valid parameters, answered
\* UNIMPLEMENTED
C13_WitnessUnimplemented ==
    /\ Answered
    /\ rpc.request.handler = "AnalogToAnalog"
    /\ rpc.request.algorithm = Unrecognized
    /\ ~SentinelParams(rpc.request)
    /\ rpc.status = "UNIMPLEMENTED"


\* the exchange of the service carries the request caller p gave the core
SameRequest(p) ==
    /\ Answered
    /\ Done(p)
    /\ rpc.request = Forward(p, rpc.request.handler, rpc.request.algorithm,
                             rpc.request.config)
    /\ CASE fn[p] = "AnalogToDigitalPCM" ->
              rpc.request.handler = "AnalogToDigital" /\ rpc.request.config = "pcm"
         [] fn[p] = "AnalogToDigitalDM" ->
              rpc.request.handler = "AnalogToDigital"
                  /\ rpc.request.config = "delta_modulation"
         [] OTHER ->
              /\ rpc.request.handler = fn[p]
              /\ rpc.request.algorithm = args[p].type
              /\ rpc.request.algorithm \in Recognized(rpc.request.handler)

IsSentinel(r) == r.input = <<>> /\ r.output = <<>>

\* C14: for every request with a recognized selector (for AnalogToDigital,
\* a PCM or DM config), the handler returns OK exactly when the core result
\* for the same parameters and scheme is not the empty sentinel, and for
\* valid parameters the input, transmitted and output sequences of the reply
\* equal the core's, point for point.
C14_TransportEqualsCore ==
    \A p \in Procs :
        SameRequest(p) =>
            /\ (rpc.status = "OK") <=> ~IsSentinel(result[p])
            /\ ValidCall(p) =>
                  /\ Len(rpc.reply.input) = Len(result[p].input)
                  /\ Len(rpc.reply.transmitted) = Len(result[p].transmitted)
                  /\ Len(rpc.reply.output) = Len(result[p].output)
                  /\ \A k \in 1..Len(result[p].input) :
                        rpc.reply.input[k] = result[p].input[k]
                  /\ \A k \in 1..Len(result[p].transmitted) :
                        rpc.reply.transmitted[k] = result[p].transmitted[k]
                  /\ \A k \in 1..Len(result[p].output) :
                        rpc.reply.output[k] = result[p].output[k]

\* a delta-modulation request answered OK whose ticks fall between samples
C14_Witness ==
    /\ SameRequest(1) /\ ValidCall(1)
    /\ fn[1] = "AnalogToDigitalDM"
    /\ args[1].sampling_rate = 3
    /\ rpc.status = "OK"
    /\ Len(rpc.reply.transmitted) > 1
    /\ rpc.reply.transmitted = result[1].transmitted

\* the same for each of the other handlers
C14_WitnessOthers ==
    /\ SameRequest(1) /\ ValidCall(1)
    /\ rpc.status = "OK"
    /\ \/ fn[1] = "AnalogToAnalog" /\ args[1].type = "FM"
       \/ fn[1] = "AnalogToDigitalPCM" /\ args[1].quantization_levels = 3
       \/ fn[1] = "DigitalToAnalog" /\ args[1].type = "PSK"
       \/ fn[1] = "DigitalToDigital" /\ args[1].type = "HDB3"
                /\ Len(args[1].binary) > 4


\* C15: every call of every core transform returns.  The PCM and DM tick
\* loops exit for every validated sampling_rate > 0: no activation is left
\* running in a loop whose exit test can never hold.  The B8ZS and HDB3 cursor
\* loops advance the cursor on every iteration and exit after at most n
\* iterations for an n-bit string: the cursor never passes n and every
\* iteration so far has moved it by at least one bit (two points per bit).
C15_EveryCallReturns ==
    \A p \in Procs :
        /\ pc[p] # "runaway"
        /\ (pc[p] = "loop" /\ fn[p] = "DigitalToDigital"
               /\ args[p].type \in {"B8ZS", "HDB3"})
           => /\ local[p].i <= Len(args[p].binary)
              /\ Len(transmitted[p]) = 2 * local[p].i

\* the cursor part of C15 alone: each B8ZS / HDB3 iteration moves the cursor
\* forward and never past the end of the string
C15_CursorAdvances ==
    [][\A p \in Procs :
          (pc[p] = "loop" /\ fn[p] = "DigitalToDigital"
             /\ args[p].type \in {"B8ZS", "HDB3"} /\ local'[p] # local[p])
          => /\ local'[p].i > local[p].i
             /\ local'[p].i <= Len(args[p].binary)]_vars


ValidTicks(p) ==
    /\ Done(p)
    /\ fn[p] \in {"AnalogToDigitalPCM", "AnalogToDigitalDM"}
    /\ ValidCall(p)

\* transmitted of caller p holds one point per i in 0..(n - 1), in increasing
\* i, at x = i / sampling_rate rounded to 1e-6 s
TicksAre(p, n) ==
    /\ Len(result[p].transmitted) = n
    /\ \A k \in 1..Len(result[p].transmitted) :
          LET x == result[p].transmitted[k].x
              rate == args[p].sampling_rate
          IN  \* x - 1/2 <= (k - 1) * 1e6 / rate < x + 1/2
              /\ (2 * x - 1) * rate <= 2 * (k - 1) * 1000000
              /\ 2 * (k - 1) * 1000000 < (2 * x + 1) * rate

ValidLine(p, types) ==
    /\ Done(p)
    /\ fn[p] = "DigitalToDigital"
    /\ args[p].type \in types
    /\ ValidBinary(args[p].binary)

\* C17: for NRZ-L, NRZ-I, AMI, Pseudoternary, B8ZS and HDB3 on a valid n-bit
\* string, transmitted has exactly 2n points and points 2i and 2i+1 have
\* x = i and x = i + 1 and the same y, for every bit i, whatever the number
\* of substitutions; for Manchester and Differential Manchester transmitted
\* has exactly 4n points with x = i, i + 0.5, i + 0.5, i + 1 for bit i.
C17_BitCoverage ==
    \A p \in Procs :
        LET n == Len(args[p].binary)
            tr == result[p].transmitted
        IN  /\ ValidLine(p, {"NRZ_L", "NRZ_I", "AMI", "PSEUDOTERNARY", "B8ZS", "HDB3"})
               => /\ Len(tr) = 2 * n
                  /\ \A i \in 0..(n - 1) :
                        /\ tr[2 * i + 1].x = i * 1000000
                        /\ tr[2 * i + 2].x = (i + 1) * 1000000
                        /\ tr[2 * i + 1].y = tr[2 * i + 2].y
            /\ ValidLine(p, {"MANCHESTER", "DIFFERENTIAL_MANCHESTER"})
               => /\ Len(tr) = 4 * n
                  /\ \A i \in 0..(n - 1) :
                        /\ tr[4 * i + 1].x = i * 1000000
                        /\ tr[4 * i + 2].x = i * 1000000 + 500000
                        /\ tr[4 * i + 3].x = i * 1000000 + 500000
                        /\ tr[4 * i + 4].x = (i + 1) * 1000000

\* a B8ZS result over sixteen zeros (two substitutions), fully covered
C17_Witness ==
    /\ ValidLine(1, {"B8ZS"})
    /\ args[1].binary = Zeros(16)
    /\ Len(result[1].transmitted) = 32
    /\ result[1].transmitted[8].y # 0
    /\ result[1].transmitted[32].y # 0

\* a Manchester-family result of four points per bit
C17_WitnessManchester ==
    /\ ValidLine(1, {"DIFFERENTIAL_MANCHESTER"})
    /\ Len(args[1].binary) = 3
    /\ Len(result[1].transmitted) = 12


\* the vectors of caller p's DM activation: the result once returned, the
\* local vectors while the loop runs
DMView(p) ==
    IF Done(p) THEN result[p]
    ELSE [input |-> input_signal[p], transmitted |-> transmitted[p], output |-> output[p]]

\* C18: Delta Modulation step rule.  At every tick the transmitted bit is 1
\* exactly when the interpolated input is strictly greater than the
\* approximation held before the tick, else 0 (so the first bit, at t = 0
\* with input = approximation = 0, is 0); the approximation after the tick
\* is clamp(previous + delta) for bit 1 and clamp(previous - delta) for bit
\* 0, delta = amplitude * delta_step_size, clamped to [-1.5 amplitude,
\* 1.5 amplitude]; the output point appended at t holds the new
\* approximation and is immediately preceded by a point at t - 0.001 holding
\* the previous one.
C18_DMStepRule ==
    \A p \in Procs :
        (pc[p] \in {"loop", "done", "runaway"} /\ fn[p] = "AnalogToDigitalDM" /\ ValidCall(p))
        => LET v == DMView(p)
               tr == v.transmitted
               out == v.output
               delta == args[p].amp * args[p].delta_step_size * 1000
               hi == args[p].amp * 15000
           IN  /\ Len(out) >= 2 * Len(tr) + 1
               /\ Len(tr) > 0 => tr[1].y = 0
               /\ \A k \in 1..Len(tr) :
                     LET t == tr[k].x
                         previous == out[2 * k - 1].y
                         moved == IF tr[k].y = 1 THEN previous + delta ELSE previous - delta
                     IN  /\ tr[k].y \in {0, 1}
                         /\ tr[k].y = 1 <=> get_input_value_at_time(v.input, t) > previous
                         /\ out[2 * k] = [x |-> t - 1000, y |-> previous]
                         /\ out[2 * k + 1].x = t
                         /\ out[2 * k + 1].y =
                               IF moved > hi THEN hi ELSE IF moved < -hi THEN -hi ELSE moved

\* a returned DM bundle with bits of both values and a clamped approximation
C18_Witness ==
    /\ Done(1) /\ fn[1] = "AnalogToDigitalDM" /\ ValidCall(1)
    /\ \E j, k \in 1..Len(result[1].transmitted) :
          /\ result[1].transmitted[j].y = 1
          /\ result[1].transmitted[k].y = 0
          /\ k > 1
    /\ \E k \in 1..Len(result[1].output) :
          result[1].output[k].y = args[1].amp * 15000


\* C19: Differential Manchester on a valid bit string.  Within every bit the
\* second-half level is the negation of the first-half level; the first-half
\* level of bit i differs from the second-half level of bit i - 1 (taken as
\* +1 for i = 0) exactly when bit i is '0'; all levels are +1 or -1.
C19_DifferentialManchester ==
    \A p \in Procs :
        ValidLine(p, {"DIFFERENTIAL_MANCHESTER"}) =>
            LET tr == result[p].transmitted
                n == Len(args[p].binary)
            IN  /\ Len(tr) = 4 * n
                /\ \A k \in 1..Len(tr) : tr[k].y \in {1, -1}
                /\ \A i \in 0..(n - 1) :
                      LET first == tr[4 * i + 1].y
                          second == tr[4 * i + 3].y
                          before == IF i = 0 THEN 1 ELSE tr[4 * i].y
                      IN  /\ tr[4 * i + 2].y = first
                          /\ tr[4 * i + 4].y = second
                          /\ second = -first
                          /\ (first # before) <=> (args[p].binary[i + 1] = "0")

\* a result over a string holding both '0' and '1' after the first bit
C19_Witness ==
    /\ ValidLine(1, {"DIFFERENTIAL_MANCHESTER"})
    /\ Len(args[1].binary) >= 3
    /\ \E j, k \in 2..Len(args[1].binary) :
          args[1].binary[j] = "0" /\ args[1].binary[k] = "1"
    /\ Len(result[1].transmitted) = 4 * Len(args[1].binary)


\* bit intervals i .. i + n - 1 (0-based) of tr are all at level 0
ZeroRun(tr, i, n) == \A j \in 0..(n - 1) : tr[2 * (i + j) + 1].y = 0

\* C20: zero-run suppression.  For every valid bit string the HDB3
\* transmitted sequence never holds four or more consecutive bit intervals at
\* level 0, and the B8ZS transmitted sequence never holds eight or more.
C20_ZeroRunSuppression ==
    \A p \in Procs :
        LET tr == result[p].transmitted
            n == Len(args[p].binary)
        IN  /\ ValidLine(p, {"HDB3"}) => \A i \in 0..(n - 4) : ~ZeroRun(tr, i, 4)
            /\ ValidLine(p, {"B8ZS"}) => \A i \in 0..(n - 8) : ~ZeroRun(tr, i, 8)

\* an HDB3 result over nine zeros: two substitutions and one trailing zero
C20_Witness ==
    /\ ValidLine(1, {"HDB3"})
    /\ args[1].binary = Zeros(9)
    /\ ZeroRun(result[1].transmitted, 0, 3)
    /\ result[1].transmitted[7].y # 0
    /\ result[1].transmitted[15].y # 0
    /\ result[1].transmitted[17].y = 0

\* a B8ZS result over a string of at least 13 bits in which eight zeros
\* were substituted
C20_WitnessB8ZS ==
    /\ ValidLine(1, {"B8ZS"})
    /\ Len(args[1].binary) >= 13
    /\ \E i \in 0..(Len(args[1].binary) - 8) :
          /\ ZerosAhead(args[1].binary, i, 8)
          /\ ~ZeroRun(result[1].transmitted, i, 8)


\* the cursor positions (0-based) at which a run of n zeros is substituted,
\* walking the string from cursor i
RECURSIVE SubstitutionStarts(_, _, _)
SubstitutionStarts(binary, n, i) ==
    IF i >= Len(binary) THEN {}
    ELSE IF AllZero(binary, i, n)
    THEN {i} \cup SubstitutionStarts(binary, n, i + n)
    ELSE SubstitutionStarts(binary, n, i + 1)

\* the level of bit interval b (0-based) of tr
LevelAt(tr, b) == tr[2 * b + 1].y

\* the bit intervals before b that hold a non-zero level
PulsesBefore(tr, b) == {c \in 0..(b - 1) : LevelAt(tr, c) # 0}

\* the nearest non-zero level before bit interval b (there is one)
PrecedingPulse(tr, b) ==
    LevelAt(tr, CHOOSE c \in PulsesBefore(tr, b) : \A d \in PulsesBefore(tr, b) : d <= c)

\* bit interval b holds a bipolar violation: a pulse of the polarity of the
\* nearest preceding pulse, when there is one
IsViolation(tr, b) ==
    /\ LevelAt(tr, b) # 0
    /\ PulsesBefore(tr, b) # {} => LevelAt(tr, b) = PrecedingPulse(tr, b)

\* bit interval b holds a regular bipolar pulse: opposite to the nearest
\* preceding pulse, when there is one
IsBipolar(tr, b) ==
    /\ LevelAt(tr, b) # 0
    /\ PulsesBefore(tr, b) # {} => LevelAt(tr, b) = -PrecedingPulse(tr, b)

\* C21: every V position of a substitution is a bipolar violation.  In every
\* B8ZS substitution (V at pattern positions 4 and 7) and every HDB3
\* substitution (V at pattern position 4) the level at a V position is
\* non-zero and has the polarity of the nearest preceding non-zero level of
\* transmitted, whenever there is one; every B position (5 and 8 in B8ZS, 1
\* in the HDB3 pattern B00V) has the opposite polarity.
C21_VIsViolation ==
    \A p \in Procs :
        LET tr == result[p].transmitted
            binary == args[p].binary
        IN  /\ ValidLine(p, {"B8ZS"}) =>
                  \A s \in SubstitutionStarts(binary, 8, 0) :
                      /\ IsViolation(tr, s + 3)
                      /\ IsBipolar(tr, s + 4)
                      /\ IsViolation(tr, s + 6)
                      /\ IsBipolar(tr, s + 7)
            /\ ValidLine(p, {"HDB3"}) =>
                  \A s \in SubstitutionStarts(binary, 4, 0) :
                      /\ IsViolation(tr, s + 3)
                      /\ LevelAt(tr, s) # 0 => IsBipolar(tr, s)

\* what holds of C21: everything but pattern position 7 of B8ZS, which is a
\* regular bipolar pulse (opposite to the B at position 5), not a violation
C21_AllButSecondV ==
    \A p \in Procs :
        LET tr == result[p].transmitted
            binary == args[p].binary
        IN  /\ ValidLine(p, {"B8ZS"}) =>
                  \A s \in SubstitutionStarts(binary, 8, 0) :
                      /\ IsViolation(tr, s + 3)
                      /\ IsBipolar(tr, s + 4)
                      /\ IsBipolar(tr, s + 6)
                      /\ IsBipolar(tr, s + 7)
            /\ ValidLine(p, {"HDB3"}) =>
                  \A s \in SubstitutionStarts(binary, 4, 0) :
                      /\ IsViolation(tr, s + 3)
                      /\ LevelAt(tr, s) # 0 => IsBipolar(tr, s)

\* a mark and eight zeros under B8ZS: +, 0 0 0 + - 0 + -
C21_SecondVAfterMark ==
    /\ ValidLine(1, {"B8ZS"})
    /\ args[1].binary = <<"1">> \o Zeros(8)
    /\ Ys(result[1].transmitted) = Ys(LevelPoints(0, <<1, 0, 0, 0, 1, -1, 0, 1, -1>>))
    /\ ~IsViolation(result[1].transmitted, 7)

\* HDB3 results holding both patterns, 000V and B00V
C21_HDB3BothPatterns ==
    /\ ValidLine(1, {"HDB3"})
    /\ \E s, u \in SubstitutionStarts(args[1].binary, 4, 0) :
          /\ LevelAt(result[1].transmitted, s) = 0
          /\ LevelAt(result[1].transmitted, u) # 0
          /\ PulsesBefore(result[1].transmitted, s) # {}


====
